---- MODULE Spec2Model ----
(***************************************************************************)
(* Model of scripts/clean_conllu.py: the CoNLL-U sentence validator        *)
(* (CoNLLUValidator) and the streaming driver clean_conllu_file.           *)
(*                                                                         *)
(* A text line is a sequence of one-character strings; "\t" is the tab.    *)
(* Python's str.split, str.strip, str.startswith, `in` and int() are       *)
(* modelled on those character sequences.                                  *)
(***************************************************************************)
EXTENDS Integers, Sequences, FiniteSets, TLC

VARIABLES
    consumed,           \* lines of infile read so far (each after rstrip('\n'))
    pc,                 \* "reading" | "done" (driver) ; "call" | "returned" (validator alone)
    current_sentence,   \* clean_conllu_file: pending token lines
    current_comments,   \* clean_conllu_file: pending comment lines
    sent_id,            \* clean_conllu_file: [set |-> BOOLEAN, text |-> chars]; set = FALSE is None
    total_sentences,
    valid_sentences,
    invalid_sentences,
    outfile,            \* characters written to outfile so far
    errors,             \* validator.errors
    sentence_lines,     \* argument of the latest validate_sentence call
    ret,                \* its return value: "None" before any call, "True", "False"
    infile_line_num,    \* clean_conllu_file: line_num, the index of the line last read
    verbose,            \* clean_conllu_file: the verbose argument
    printed,            \* the "Removed sentence ..." messages printed so far
    walk                \* _check_no_cycles run step by step (SpecT only)

vars == <<consumed, pc, current_sentence, current_comments, sent_id,
          total_sentences, valid_sentences, invalid_sentences, outfile,
          errors, sentence_lines, ret, infile_line_num, verbose, printed, walk>>

-----------------------------------------------------------------------------
(* Bounds of the model *)

MaxTokens == 3      \* lines of a sentence handed to validate_sentence alone
MaxLines == 5       \* lines of an input stream
MaxStream == 4      \* lines of an input stream when the walk is run step by step

-----------------------------------------------------------------------------
(* Characters and strings *)

TAB == "\t"
NL == "\n"

Digits == {"0", "1", "2", "3", "4", "5", "6", "7", "8", "9"}

DigitVal(c) ==
    CASE c = "0" -> 0 [] c = "1" -> 1 [] c = "2" -> 2 [] c = "3" -> 3
      [] c = "4" -> 4 [] c = "5" -> 5 [] c = "6" -> 6 [] c = "7" -> 7
      [] c = "8" -> 8 [] c = "9" -> 9

DigitChar(n) ==
    CASE n = 0 -> "0" [] n = 1 -> "1" [] n = 2 -> "2" [] n = 3 -> "3"
      [] n = 4 -> "4" [] n = 5 -> "5" [] n = 6 -> "6" [] n = 7 -> "7"
      [] n = 8 -> "8" [] n = 9 -> "9"

\* str.isspace on one character of a line (a line holds no "\n")
IsSpace(c) == c \in {" ", TAB}

\* c in s
Contains(s, c) == \E i \in 1..Len(s) : s[i] = c

\* s.startswith(p)
StartsWith(s, p) == Len(s) >= Len(p) /\ SubSeq(s, 1, Len(p)) = p

\* s.strip()
RECURSIVE LStrip(_)
LStrip(s) ==
    IF s # <<>> /\ IsSpace(Head(s)) THEN LStrip(Tail(s)) ELSE s

RECURSIVE RStrip(_)
RStrip(s) ==
    IF s # <<>> /\ IsSpace(s[Len(s)]) THEN RStrip(SubSeq(s, 1, Len(s) - 1)) ELSE s

Strip(s) == RStrip(LStrip(s))

\* s.split(sep): the fields between the separators, empty fields kept
RECURSIVE SplitFrom(_, _, _, _, _)
SplitFrom(s, sep, i, cur, acc) ==
    IF i > Len(s) THEN Append(acc, cur)
    ELSE IF s[i] = sep THEN SplitFrom(s, sep, i + 1, <<>>, Append(acc, cur))
    ELSE SplitFrom(s, sep, i + 1, Append(cur, s[i]), acc)

Split(s, sep) == SplitFrom(s, sep, 1, <<>>, <<>>)

\* s.split(sep, 1)[1], for s holding sep: what follows the first sep
RECURSIVE AfterFirst(_, _)
AfterFirst(s, sep) ==
    IF s = <<>> THEN <<>>
    ELSE IF Head(s) = sep THEN Tail(s)
    ELSE AfterFirst(Tail(s), sep)

\* str(n) for n >= 0
RECURSIVE Str(_)
Str(n) ==
    IF n < 10 THEN <<DigitChar(n)>>
    ELSE Append(Str(n \div 10), DigitChar(n % 10))

\* The digits of an int() literal after its sign: digits, single underscores
\* allowed between digits
IntBodyOk(b) ==
    /\ b # <<>>
    /\ \A i \in 1..Len(b) : b[i] \in Digits \/ b[i] = "_"
    /\ b[1] # "_"
    /\ b[Len(b)] # "_"
    /\ \A i \in 1..(Len(b) - 1) : ~(b[i] = "_" /\ b[i + 1] = "_")

RECURSIVE IntBodyVal(_, _)
IntBodyVal(b, acc) ==
    IF b = <<>> THEN acc
    ELSE IF Head(b) = "_" THEN IntBodyVal(Tail(b), acc)
    ELSE IntBodyVal(Tail(b), 10 * acc + DigitVal(Head(b)))

\* int(s): [ok |-> FALSE] stands for ValueError
ParseInt(s) ==
    LET t == Strip(s)
        signed == t # <<>> /\ t[1] \in {"+", "-"}
        body == IF signed THEN Tail(t) ELSE t
    IN  IF IntBodyOk(body)
        THEN [ok |-> TRUE,
              val |-> IF signed /\ t[1] = "-" THEN 0 - IntBodyVal(body, 0)
                      ELSE IntBodyVal(body, 0)]
        ELSE [ok |-> FALSE, val |-> 0]

-----------------------------------------------------------------------------
(* Diagnostics appended to validator.errors.  One record shape for all, so  *)
(* that any two can be compared: msg is the message's fixed text, the other *)
(* fields its interpolated values.                                          *)

Diag(msg, n, m, ids, s1, s2) ==
    [msg |-> msg, n |-> n, m |-> m, ids |-> ids, s1 |-> s1, s2 |-> s2]

EmptySentenceErr == Diag("Empty sentence", 0, 0, <<>>, <<>>, <<>>)
FieldCountErr(line_num, got) ==
    Diag("Line n: Expected 10 fields, got m", line_num, got, <<>>, <<>>, <<>>)
InvalidIdOrHeadErr(line_num, token_id, head) ==
    Diag("Line n: Invalid token ID or head: s1, s2", line_num, 0, <<>>, token_id, head)
NoRootErr == Diag("No root found (no token with head=0)", 0, 0, <<>>, <<>>, <<>>)
MultipleRootsErr(roots) ==
    Diag("Multiple roots found: tokens ids all have head=0", 0, 0, roots, <<>>, <<>>)
InvalidHeadErr(id, head) ==
    Diag("Token n has invalid head m", id, head, <<>>, <<>>, <<>>)
CycleErr == Diag("Dependency cycle detected", 0, 0, <<>>, <<>>, <<>>)
MissingFormErr(id) == Diag("Token n: Empty or missing form", id, 0, <<>>, <<>>, <<>>)
MissingUposErr(id) == Diag("Token n: Empty or missing UPOS", id, 0, <<>>, <<>>, <<>>)
MissingDeprelErr(id) == Diag("Token n: Empty or missing deprel", id, 0, <<>>, <<>>, <<>>)

-----------------------------------------------------------------------------
(* CoNLLUValidator.validate_sentence *)

\* The locals of validate_sentence before its loop over the lines
ParseStart == [errors |-> <<>>, tokens |-> <<>>, roots |-> <<>>, token_ids |-> {}]

\* ParseLine with int() tried before the test for '-' and '.' in the id
ParseLine_IntBeforeMarker(acc, line, line_num) ==
    LET fields == Split(line, TAB) IN
    IF Len(fields) # 10
    THEN [acc EXCEPT !.errors = Append(@, FieldCountErr(line_num, Len(fields)))]
    ELSE
      LET token_id == fields[1]
          head == fields[7]
          token_id_int == ParseInt(token_id)
          head_int == ParseInt(head)
      IN  IF ~token_id_int.ok \/ ~head_int.ok
          THEN [acc EXCEPT !.errors =
                    Append(@, InvalidIdOrHeadErr(line_num, token_id, head))]
          ELSE IF Contains(token_id, "-") \/ Contains(token_id, ".")
          THEN acc
          ELSE [errors |-> acc.errors,
                token_ids |-> acc.token_ids \cup {token_id_int.val},
                roots |-> IF head_int.val = 0
                          THEN Append(acc.roots, token_id_int.val)
                          ELSE acc.roots,
                tokens |-> Append(acc.tokens,
                                  [id |-> token_id_int.val,
                                   form |-> fields[2],
                                   lemma |-> fields[3],
                                   upos |-> fields[4],
                                   head |-> head_int.val,
                                   deprel |-> fields[8],
                                   line_num |-> line_num])]

\* One iteration of the loop over enumerate(sentence_lines, 1).  The outer
\* `except Exception` cannot be reached: split, len and the unpacking of ten
\* fields do not raise, and ValueError from int() is caught inside.
ParseLine(acc, line, line_num) ==
    LET fields == Split(line, TAB) IN
    IF Len(fields) # 10
    THEN [acc EXCEPT !.errors = Append(@, FieldCountErr(line_num, Len(fields)))]
    ELSE
      LET token_id == fields[1]
          head == fields[7]
          token_id_int == ParseInt(token_id)
          head_int == ParseInt(head)
      IN  IF Contains(token_id, "-") \/ Contains(token_id, ".")
          THEN acc
          ELSE IF ~token_id_int.ok \/ ~head_int.ok
          THEN [acc EXCEPT !.errors =
                    Append(@, InvalidIdOrHeadErr(line_num, token_id, head))]
          ELSE [errors |-> acc.errors,
                token_ids |-> acc.token_ids \cup {token_id_int.val},
                roots |-> IF head_int.val = 0
                          THEN Append(acc.roots, token_id_int.val)
                          ELSE acc.roots,
                tokens |-> Append(acc.tokens,
                                  [id |-> token_id_int.val,
                                   form |-> fields[2],
                                   lemma |-> fields[3],
                                   upos |-> fields[4],
                                   head |-> head_int.val,
                                   deprel |-> fields[8],
                                   line_num |-> line_num])]

RECURSIVE ParseLines(_, _, _)
ParseLines(acc, lines, line_num) ==
    IF line_num > Len(lines) THEN acc
    ELSE ParseLines(ParseLine(acc, lines[line_num], line_num), lines, line_num + 1)

\* RootErrors with `elif len(roots) > 2`
RootErrors_MoreThanTwo(roots) ==
    IF Len(roots) = 0 THEN <<NoRootErr>>
    ELSE IF Len(roots) > 2 THEN <<MultipleRootsErr(roots)>>
    ELSE <<>>

\* "Check for exactly one root"
RootErrors(roots) ==
    IF Len(roots) = 0 THEN <<NoRootErr>>
    ELSE IF Len(roots) > 1 THEN <<MultipleRootsErr(roots)>>
    ELSE <<>>

\* HeadErrors leaving its loop after the first invalid head
RECURSIVE HeadErrors_FirstOnly(_, _)
HeadErrors_FirstOnly(tokens, token_ids) ==
    IF tokens = <<>> THEN <<>>
    ELSE LET token == Head(tokens) IN
         IF token.head # 0 /\ token.head \notin token_ids
         THEN <<InvalidHeadErr(token.id, token.head)>>
         ELSE HeadErrors_FirstOnly(Tail(tokens), token_ids)

\* "Check that all heads point to valid tokens (except root)"
RECURSIVE HeadErrors(_, _)
HeadErrors(tokens, token_ids) ==
    IF tokens = <<>> THEN <<>>
    ELSE LET token == Head(tokens) IN
         (IF token.head # 0 /\ token.head \notin token_ids
          THEN <<InvalidHeadErr(token.id, token.head)>>
          ELSE <<>>) \o HeadErrors(Tail(tokens), token_ids)

\* {t['id']: t['head'] for t in tokens}: a later token with the same id
\* replaces the earlier one's entry
TokenHeads(tokens) ==
    [i \in {tokens[k].id : k \in 1..Len(tokens)} |->
        LET last == CHOOSE k \in 1..Len(tokens) :
                        /\ tokens[k].id = i
                        /\ \A j \in (k + 1)..Len(tokens) : tokens[j].id # i
        IN  tokens[last].head]

\* The while loop of _check_no_cycles from `current`: TRUE when it returns False
RECURSIVE WalkFindsCycle(_, _, _)
WalkFindsCycle(token_heads, current, visited) ==
    IF current = 0 \/ current \notin DOMAIN token_heads THEN FALSE
    ELSE IF current \in visited THEN TRUE
    ELSE WalkFindsCycle(token_heads, token_heads[current], visited \cup {current})

RECURSIVE NoCycleFrom(_, _, _)
NoCycleFrom(tokens, token_heads, k) ==
    IF k > Len(tokens) THEN TRUE
    ELSE IF WalkFindsCycle(token_heads, tokens[k].id, {}) THEN FALSE
    ELSE NoCycleFrom(tokens, token_heads, k + 1)

\* _check_no_cycles with `visited = set()` moved out of the for loop
RECURSIVE WalkShared(_, _, _)
WalkShared(token_heads, current, visited) ==
    IF current = 0 \/ current \notin DOMAIN token_heads
    THEN [cycle |-> FALSE, visited |-> visited]
    ELSE IF current \in visited THEN [cycle |-> TRUE, visited |-> visited]
    ELSE WalkShared(token_heads, token_heads[current], visited \cup {current})

RECURSIVE NoCycleFromShared(_, _, _, _)
NoCycleFromShared(tokens, token_heads, k, visited) ==
    IF k > Len(tokens) THEN TRUE
    ELSE LET w == WalkShared(token_heads, tokens[k].id, visited) IN
         IF w.cycle THEN FALSE
         ELSE NoCycleFromShared(tokens, token_heads, k + 1, w.visited)

check_no_cycles_SharedVisited(tokens) ==
    NoCycleFromShared(tokens, TokenHeads(tokens), 1, {})

\* CoNLLUValidator._check_no_cycles
check_no_cycles(tokens) == NoCycleFrom(tokens, TokenHeads(tokens), 1)

\* _check_no_cycles one step at a time.  A walk is the record of its locals:
\* tokens, k (the index of start_token in tokens), current, visited, and
\* status: "for" at the head of the for loop, "while" at the head of the
\* while loop, "returned_true" / "returned_false" after the return.
WalkBegin(tokens, then) ==
    [status |-> "for", tokens |-> tokens, k |-> 1, current |-> 0,
     visited |-> {}, then |-> then]

\* The head of the for loop: the next start_token, or `return True`
ForStep(w) ==
    IF w.k > Len(w.tokens) THEN [w EXCEPT !.status = "returned_true"]
    ELSE [w EXCEPT !.status = "while",
                   !.visited = {},
                   !.current = w.tokens[w.k].id]

\* WhileStep without `if current in visited: return False`
WhileStep_NoVisitedCheck(w) ==
    LET token_heads == TokenHeads(w.tokens) IN
    IF w.current # 0 /\ w.current \in DOMAIN token_heads
    THEN [w EXCEPT !.visited = @ \cup {w.current},
                   !.current = token_heads[w.current]]
    ELSE [w EXCEPT !.status = "for", !.k = @ + 1]

\* One test of the while condition and, when it holds, one run of the body
WhileStep(w) ==
    LET token_heads == TokenHeads(w.tokens) IN
    IF w.current # 0 /\ w.current \in DOMAIN token_heads
    THEN IF w.current \in w.visited
         THEN [w EXCEPT !.status = "returned_false"]
         ELSE [w EXCEPT !.visited = @ \cup {w.current},
                        !.current = token_heads[w.current]]
    ELSE [w EXCEPT !.status = "for", !.k = @ + 1]

CycleErrors(tokens) == IF ~check_no_cycles(tokens) THEN <<CycleErr>> ELSE <<>>

\* not field or field == '_'
Missing(field) == field = <<>> \/ field = <<"_">>

\* "Check required fields are not empty"
RECURSIVE FieldErrors(_)
FieldErrors(tokens) ==
    IF tokens = <<>> THEN <<>>
    ELSE LET token == Head(tokens) IN
         (IF Missing(token.form) THEN <<MissingFormErr(token.id)>> ELSE <<>>)
         \o (IF Missing(token.upos) THEN <<MissingUposErr(token.id)>> ELSE <<>>)
         \o (IF Missing(token.deprel) THEN <<MissingDeprelErr(token.id)>> ELSE <<>>)
         \o FieldErrors(Tail(tokens))

\* validate_sentence without `self.errors = []`
ResetErrors_Kept(self_errors) == self_errors

\* self.errors = [] at the start of validate_sentence
ResetErrors(self_errors) == <<>>

\* validate_sentence(lines) on a validator whose self.errors is self_errors:
\* the value returned and self.errors after the call
validate_sentence_on(self_errors, lines) ==
    IF lines = <<>>
    THEN [ret |-> FALSE, errors |-> Append(ResetErrors(self_errors), EmptySentenceErr)]
    ELSE LET p == ParseLines([ParseStart EXCEPT !.errors = ResetErrors(self_errors)],
                             lines, 1)
             errs == p.errors
                     \o RootErrors(p.roots)
                     \o HeadErrors(p.tokens, p.token_ids)
                     \o CycleErrors(p.tokens)
                     \o FieldErrors(p.tokens)
         IN  [ret |-> Len(errs) = 0, errors |-> errs]

\* validate_sentence(lines) on a validator just constructed (self.errors = [])
validate_sentence(lines) == validate_sentence_on(<<>>, lines)

\* get_errors
get_errors == errors

\* Python's repr of the returned bool
BoolName(b) == IF b THEN "True" ELSE "False"

-----------------------------------------------------------------------------
(* clean_conllu_file: the loop over the lines of infile.  The functions    *)
(* below act on a record of the locals of clean_conllu_file and of the      *)
(* validator's state; the actions apply them to the variables.              *)

\* sent_id = None
NoSentId == [set |-> FALSE, text |-> <<>>]
SomeSentId(text) == [set |-> TRUE, text |-> text]

\* f"{sent_id}": str(None) is "None"
Label(id) == IF id.set THEN id.text ELSE <<"N", "o", "n", "e">>

\* print(f"Removed sentence {sent_id} (line ~{line_num}): {'; '.join(errors)}"),
\* and after the loop the same without the line (line |-> 0)
Removed(id, n, errs) == [label |-> Label(id), line |-> n, errors |-> errs]

\* No walk of the head chains is under way
NoWalk == [status |-> "idle", tokens |-> <<>>, k |-> 0, current |-> 0,
           visited |-> {}, then |-> "none"]

\* The locals after lines 144-155, outfile just opened for writing, with the
\* default verbose=False; line_num is 0 before the first iteration
Locals0 ==
    [current_sentence |-> <<>>, current_comments |-> <<>>, sent_id |-> NoSentId,
     total_sentences |-> 0, valid_sentences |-> 0, invalid_sentences |-> 0,
     outfile |-> <<>>, errors |-> <<>>, sentence_lines |-> <<>>, ret |-> "None",
     line_num |-> 0, verbose |-> FALSE, printed |-> <<>>]

\* line.startswith('#')
IsCommentLine(line) == StartsWith(line, <<"#">>)

\* elif line.strip() == ''
IsBlankLine(line) == ~IsCommentLine(line) /\ Strip(line) = <<>>

\* else: a token line
IsTokenLine(line) == ~IsCommentLine(line) /\ ~IsBlankLine(line)

SentIdPrefix == <<"#", " ", "s", "e", "n", "t", "_", "i", "d">>

\* CommentStep without `current_comments.append(line)`
CommentStep_NotBuffered(st, line) ==
    [st EXCEPT
        !.sent_id =
            IF StartsWith(line, SentIdPrefix)
            THEN IF Contains(line, "=")
                 THEN SomeSentId(Strip(AfterFirst(line, "=")))
                 ELSE SomeSentId(Str(st.total_sentences + 1))
            ELSE @]

\* CommentStep that also takes the comment line for a token line
CommentStep_AlsoToken(st, line) ==
    [st EXCEPT
        !.current_comments = Append(@, line),
        !.current_sentence = Append(@, line),
        !.sent_id =
            IF StartsWith(line, SentIdPrefix)
            THEN IF Contains(line, "=")
                 THEN SomeSentId(Strip(AfterFirst(line, "=")))
                 ELSE SomeSentId(Str(st.total_sentences + 1))
            ELSE @]

\* CommentStep with the fallback str(total_sentences)
CommentStep_FallbackOffByOne(st, line) ==
    [st EXCEPT
        !.current_comments = Append(@, line),
        !.sent_id =
            IF StartsWith(line, SentIdPrefix)
            THEN IF Contains(line, "=")
                 THEN SomeSentId(Strip(AfterFirst(line, "=")))
                 ELSE SomeSentId(Str(st.total_sentences))
            ELSE @]

\* The branch for a comment line
CommentStep(st, line) ==
    [st EXCEPT
        !.current_comments = Append(@, line),
        !.sent_id =
            IF StartsWith(line, SentIdPrefix)
            THEN IF Contains(line, "=")
                 THEN SomeSentId(Strip(AfterFirst(line, "=")))
                 ELSE SomeSentId(Str(st.total_sentences + 1))
            ELSE @]

\* outfile.write(x + '\n') for each x of lines
RECURSIVE WriteLines(_, _)
WriteLines(out, lines) ==
    IF lines = <<>> THEN out
    ELSE WriteLines(out \o Head(lines) \o <<NL>>, Tail(lines))

\* WriteSentence without the final outfile.write('\n')
WriteSentence_NoEmptyLine(out, comments, sentence) ==
    WriteLines(WriteLines(out, comments), sentence)

\* The writes of a valid sentence: comments, token lines, an empty line
WriteSentence(out, comments, sentence) ==
    WriteLines(WriteLines(out, comments), sentence) \o <<NL>>

\* BlankStep without `invalid_sentences += 1`
BlankStep_InvalidNotCounted(st) ==
    IF st.current_sentence = <<>> THEN st
    ELSE LET v == validate_sentence_on(st.errors, st.current_sentence) IN
         [st EXCEPT
            !.total_sentences = @ + 1,
            !.valid_sentences = IF v.ret THEN @ + 1 ELSE @,
            !.outfile = IF v.ret
                        THEN WriteSentence(@, st.current_comments, st.current_sentence)
                        ELSE @,
            !.printed = IF ~v.ret /\ st.verbose
                        THEN Append(@, Removed(st.sent_id, st.line_num, v.errors))
                        ELSE @,
            !.errors = v.errors,
            !.sentence_lines = st.current_sentence,
            !.ret = BoolName(v.ret),
            !.current_sentence = <<>>,
            !.current_comments = <<>>,
            !.sent_id = NoSentId]

\* BlankStep writing the token lines before the verdict is looked at
BlankStep_WritesRejected(st) ==
    IF st.current_sentence = <<>> THEN st
    ELSE LET v == validate_sentence_on(st.errors, st.current_sentence) IN
         [st EXCEPT
            !.total_sentences = @ + 1,
            !.valid_sentences = IF v.ret THEN @ + 1 ELSE @,
            !.invalid_sentences = IF v.ret THEN @ ELSE @ + 1,
            !.outfile = IF v.ret
                        THEN WriteSentence(@, st.current_comments, st.current_sentence)
                        ELSE WriteLines(@, st.current_sentence),
            !.printed = IF ~v.ret /\ st.verbose
                        THEN Append(@, Removed(st.sent_id, st.line_num, v.errors))
                        ELSE @,
            !.errors = v.errors,
            !.sentence_lines = st.current_sentence,
            !.ret = BoolName(v.ret),
            !.current_sentence = <<>>,
            !.current_comments = <<>>,
            !.sent_id = NoSentId]

\* BlankStep without `current_sentence = []`
BlankStep_KeepsBuffer(st) ==
    IF st.current_sentence = <<>> THEN st
    ELSE LET v == validate_sentence_on(st.errors, st.current_sentence) IN
         [st EXCEPT
            !.total_sentences = @ + 1,
            !.valid_sentences = IF v.ret THEN @ + 1 ELSE @,
            !.invalid_sentences = IF v.ret THEN @ ELSE @ + 1,
            !.outfile = IF v.ret
                        THEN WriteSentence(@, st.current_comments, st.current_sentence)
                        ELSE @,
            !.printed = IF ~v.ret /\ st.verbose
                        THEN Append(@, Removed(st.sent_id, st.line_num, v.errors))
                        ELSE @,
            !.errors = v.errors,
            !.sentence_lines = st.current_sentence,
            !.ret = BoolName(v.ret),
            !.current_comments = <<>>,
            !.sent_id = NoSentId]

\* BlankStep without `sent_id = None`
BlankStep_KeepsSentId(st) ==
    IF st.current_sentence = <<>> THEN st
    ELSE LET v == validate_sentence_on(st.errors, st.current_sentence) IN
         [st EXCEPT
            !.total_sentences = @ + 1,
            !.valid_sentences = IF v.ret THEN @ + 1 ELSE @,
            !.invalid_sentences = IF v.ret THEN @ ELSE @ + 1,
            !.outfile = IF v.ret
                        THEN WriteSentence(@, st.current_comments, st.current_sentence)
                        ELSE @,
            !.printed = IF ~v.ret /\ st.verbose
                        THEN Append(@, Removed(st.sent_id, st.line_num, v.errors))
                        ELSE @,
            !.errors = v.errors,
            !.sentence_lines = st.current_sentence,
            !.ret = BoolName(v.ret),
            !.current_sentence = <<>>,
            !.current_comments = <<>>]

\* BlankStep with the reset of the buffers moved out of `if current_sentence:`
BlankStep_ResetsOnEveryBlank(st) ==
    IF st.current_sentence = <<>>
    THEN [st EXCEPT !.current_comments = <<>>, !.sent_id = NoSentId]
    ELSE LET v == validate_sentence_on(st.errors, st.current_sentence) IN
         [st EXCEPT
            !.total_sentences = @ + 1,
            !.valid_sentences = IF v.ret THEN @ + 1 ELSE @,
            !.invalid_sentences = IF v.ret THEN @ ELSE @ + 1,
            !.outfile = IF v.ret
                        THEN WriteSentence(@, st.current_comments, st.current_sentence)
                        ELSE @,
            !.printed = IF ~v.ret /\ st.verbose
                        THEN Append(@, Removed(st.sent_id, st.line_num, v.errors))
                        ELSE @,
            !.errors = v.errors,
            !.sentence_lines = st.current_sentence,
            !.ret = BoolName(v.ret),
            !.current_sentence = <<>>,
            !.current_comments = <<>>,
            !.sent_id = NoSentId]

\* The branch for a blank line ("End of sentence")
BlankStep(st) ==
    IF st.current_sentence = <<>> THEN st
    ELSE LET v == validate_sentence_on(st.errors, st.current_sentence) IN
         [st EXCEPT
            !.total_sentences = @ + 1,
            !.valid_sentences = IF v.ret THEN @ + 1 ELSE @,
            !.invalid_sentences = IF v.ret THEN @ ELSE @ + 1,
            !.outfile = IF v.ret
                        THEN WriteSentence(@, st.current_comments, st.current_sentence)
                        ELSE @,
            !.printed = IF ~v.ret /\ st.verbose
                        THEN Append(@, Removed(st.sent_id, st.line_num, v.errors))
                        ELSE @,
            !.errors = v.errors,
            !.sentence_lines = st.current_sentence,
            !.ret = BoolName(v.ret),
            !.current_sentence = <<>>,
            !.current_comments = <<>>,
            !.sent_id = NoSentId]

\* The branch for a token line
TokenStep(st, line) ==
    [st EXCEPT !.current_sentence = Append(@, line)]

\* clean_conllu_file without its handling of the last sentence
EndOfStreamStep_Dropped(st) == st

\* After the loop: "Handle last sentence if file doesn't end with empty line"
EndOfStreamStep(st) ==
    IF st.current_sentence = <<>> THEN st
    ELSE LET v == validate_sentence_on(st.errors, st.current_sentence) IN
         [st EXCEPT
            !.total_sentences = @ + 1,
            !.valid_sentences = IF v.ret THEN @ + 1 ELSE @,
            !.invalid_sentences = IF v.ret THEN @ ELSE @ + 1,
            !.outfile = IF v.ret
                        THEN WriteSentence(@, st.current_comments, st.current_sentence)
                        ELSE @,
            !.printed = IF ~v.ret /\ st.verbose
                        THEN Append(@, Removed(st.sent_id, 0, v.errors))
                        ELSE @,
            !.errors = v.errors,
            !.sentence_lines = st.current_sentence,
            !.ret = BoolName(v.ret)]

\* for line_num, line in enumerate(infile, 1): the next value of line_num
NextLine(st) == [st EXCEPT !.line_num = @ + 1]

\* One iteration of the for loop
LineStep(st, line) ==
    IF IsCommentLine(line) THEN CommentStep(NextLine(st), line)
    ELSE IF Strip(line) = <<>> THEN BlankStep(NextLine(st))
    ELSE TokenStep(NextLine(st), line)

\* The whole loop, then the handling of the last sentence
RECURSIVE RunLines(_, _)
RunLines(st, lines) ==
    IF lines = <<>> THEN st ELSE RunLines(LineStep(st, Head(lines)), Tail(lines))

clean_conllu_file(lines) == EndOfStreamStep(RunLines(Locals0, lines))

\* for line in infile: the lines of a text, each ended by '\n' or by the
\* end of the text, with rstrip('\n') applied
RECURSIVE ReadLinesFrom(_, _, _, _)
ReadLinesFrom(text, i, cur, acc) ==
    IF i > Len(text) THEN (IF cur = <<>> THEN acc ELSE Append(acc, cur))
    ELSE IF text[i] = NL THEN ReadLinesFrom(text, i + 1, <<>>, Append(acc, cur))
    ELSE ReadLinesFrom(text, i + 1, Append(cur, text[i]), acc)

ReadLines(text) == ReadLinesFrom(text, 1, <<>>, <<>>)

-----------------------------------------------------------------------------
(* Inputs *)

\* A token line of ten fields; lemma, xpos, feats, deps, misc are "_"
Line10(id, form, upos, head, deprel) ==
    id \o <<TAB>> \o form \o <<TAB, "_", TAB>> \o upos \o <<TAB, "_", TAB, "_", TAB>>
       \o head \o <<TAB>> \o deprel \o <<TAB, "_", TAB, "_">>

Word(id, head) == Line10(id, <<"a">>, <<"N">>, head, <<"r">>)

\* A line of nine fields
NineFields == <<"1", TAB, "a", TAB, "_", TAB, "N", TAB, "_", TAB, "_", TAB, "0", TAB, "r", TAB, "_">>

\* A line of nine fields whose id is that of a multiword span
SpanNineFields == <<"2", "-", "3", TAB, "a", TAB, "_", TAB, "N", TAB, "_", TAB, "_", TAB, "0", TAB, "r", TAB, "_">>

\* Lines handed to validate_sentence alone
ValidatorLines ==
    { Word(<<p[1]>>, <<p[2]>>) :
        p \in { <<"1", "0">>, <<"1", "1">>, <<"1", "2">>, <<"1", "3">>,
                <<"2", "0">>, <<"2", "1">>, <<"2", "3">>,
                <<"3", "0">>, <<"3", "2">> } }
    \cup { Word(<<"1">>, <<"5">>),              \* head names no token
           Word(<<"1">>, <<"-", "1">>),         \* negative head
           Word(<<"0">>, <<"0">>),              \* id 0
           Word(<<"x">>, <<"0">>),              \* id is no integer
           Word(<<"2", "-", "3">>, <<"_">>),    \* multiword span
           Word(<<"1", ".", "1">>, <<"0">>),    \* empty node
           NineFields,
           SpanNineFields,
           Line10(<<"1">>, <<"_">>, <<>>, <<"0">>, <<"_">>) }

RECURSIVE SeqsUpTo(_, _)
SeqsUpTo(S, n) ==
    IF n = 0 THEN {<<>>}
    ELSE LET shorter == SeqsUpTo(S, n - 1) IN
         shorter \cup { Append(s, x) : s \in shorter, x \in S }

\* Lines of an input stream
BlankLine == <<>>
SpaceLine == <<" ">>
PlainComment == <<"#", " ", "c">>
SentIdComment == SentIdPrefix \o <<" ", "=", " ", "s">>
BadSentIdComment == SentIdPrefix
RootLine == Word(<<"1">>, <<"0">>)
DepLine == Word(<<"2">>, <<"1">>)

InputLines ==
    {BlankLine, SpaceLine, PlainComment, SentIdComment, BadSentIdComment, RootLine, DepLine}

-----------------------------------------------------------------------------
(* State machine of clean_conllu_file *)

Locals ==
    [current_sentence |-> current_sentence, current_comments |-> current_comments,
     sent_id |-> sent_id, total_sentences |-> total_sentences,
     valid_sentences |-> valid_sentences, invalid_sentences |-> invalid_sentences,
     outfile |-> outfile, errors |-> errors, sentence_lines |-> sentence_lines,
     ret |-> ret, line_num |-> infile_line_num, verbose |-> verbose, printed |-> printed]

Become(st) ==
    /\ current_sentence' = st.current_sentence
    /\ current_comments' = st.current_comments
    /\ sent_id' = st.sent_id
    /\ total_sentences' = st.total_sentences
    /\ valid_sentences' = st.valid_sentences
    /\ invalid_sentences' = st.invalid_sentences
    /\ outfile' = st.outfile
    /\ errors' = st.errors
    /\ sentence_lines' = st.sentence_lines
    /\ ret' = st.ret
    /\ infile_line_num' = st.line_num
    /\ verbose' = st.verbose
    /\ printed' = st.printed

Init ==
    /\ consumed = <<>>
    /\ pc = "reading"
    /\ current_sentence = <<>>
    /\ current_comments = <<>>
    /\ sent_id = NoSentId
    /\ total_sentences = 0
    /\ valid_sentences = 0
    /\ invalid_sentences = 0
    /\ outfile = <<>>
    /\ errors = <<>>
    /\ sentence_lines = <<>>
    /\ ret = "None"
    /\ infile_line_num = 0
    /\ verbose = FALSE
    /\ printed = <<>>
    /\ walk = NoWalk

\* The loop reads a comment line
ReadComment(line) ==
    /\ pc = "reading"
    /\ Len(consumed) < MaxLines
    /\ IsCommentLine(line)
    /\ consumed' = Append(consumed, line)
    /\ Become(CommentStep(NextLine(Locals), line))
    /\ UNCHANGED <<pc, walk>>

\* The loop reads a blank line
ReadBlank(line) ==
    /\ pc = "reading"
    /\ Len(consumed) < MaxLines
    /\ IsBlankLine(line)
    /\ consumed' = Append(consumed, line)
    /\ Become(BlankStep(NextLine(Locals)))
    /\ UNCHANGED <<pc, walk>>

\* The loop reads a token line
ReadToken(line) ==
    /\ pc = "reading"
    /\ Len(consumed) < MaxLines
    /\ IsTokenLine(line)
    /\ consumed' = Append(consumed, line)
    /\ Become(TokenStep(NextLine(Locals), line))
    /\ UNCHANGED <<pc, walk>>

\* infile is exhausted
EndOfStream ==
    /\ pc = "reading"
    /\ Become(EndOfStreamStep(Locals))
    /\ pc' = "done"
    /\ UNCHANGED <<consumed, walk>>

Next ==
    \/ \E line \in InputLines : ReadComment(line)
    \/ \E line \in InputLines : ReadBlank(line)
    \/ \E line \in InputLines : ReadToken(line)
    \/ EndOfStream

Spec == Init /\ [][Next]_vars

-----------------------------------------------------------------------------
(* clean_conllu_file called with verbose=True (the -v option) *)

InitVerbose ==
    /\ consumed = <<>>
    /\ pc = "reading"
    /\ current_sentence = <<>>
    /\ current_comments = <<>>
    /\ sent_id = NoSentId
    /\ total_sentences = 0
    /\ valid_sentences = 0
    /\ invalid_sentences = 0
    /\ outfile = <<>>
    /\ errors = <<>>
    /\ sentence_lines = <<>>
    /\ ret = "None"
    /\ infile_line_num = 0
    /\ verbose = TRUE
    /\ printed = <<>>
    /\ walk = NoWalk

SpecVerbose == InitVerbose /\ [][Next]_vars

-----------------------------------------------------------------------------
(* validate_sentence called on its own, on a fresh CoNLLUValidator *)

InitV ==
    /\ consumed = <<>>
    /\ pc = "call"
    /\ current_sentence = <<>>
    /\ current_comments = <<>>
    /\ sent_id = NoSentId
    /\ total_sentences = 0
    /\ valid_sentences = 0
    /\ invalid_sentences = 0
    /\ outfile = <<>>
    /\ errors = <<>>
    /\ sentence_lines \in SeqsUpTo(ValidatorLines, MaxTokens)
    /\ ret = "None"
    /\ infile_line_num = 0
    /\ verbose = FALSE
    /\ printed = <<>>
    /\ walk = NoWalk

ValidateCall ==
    /\ pc = "call"
    /\ LET v == validate_sentence_on(errors, sentence_lines) IN
         /\ errors' = v.errors
         /\ ret' = BoolName(v.ret)
    /\ pc' = "returned"
    /\ UNCHANGED <<consumed, current_sentence, current_comments, sent_id,
                   total_sentences, valid_sentences, invalid_sentences, outfile,
                   sentence_lines, infile_line_num, verbose, printed, walk>>

NextV == ValidateCall

SpecV == InitV /\ [][NextV]_vars

-----------------------------------------------------------------------------
(* clean_conllu_file with _check_no_cycles run step by step: a blank line  *)
(* or the end of the stream that finds token lines pending starts the walk *)
(* of the head chains of the pending sentence (pc = "validating"); when    *)
(* the walk has returned, the branch is carried out.                       *)

\* Lines of an input stream with cyclic sentences
CycleLineA == Word(<<"1">>, <<"2">>)
SelfLoopLine == Word(<<"1">>, <<"1">>)
\* and with a line whose id makes int() raise ValueError
BadIdLine == Word(<<"x">>, <<"0">>)

StreamLines ==
    {BlankLine, PlainComment, RootLine, DepLine, CycleLineA, SelfLoopLine, BadIdLine}

\* tokens as validate_sentence hands them to _check_no_cycles
TokensParsed(lines) == ParseLines(ParseStart, lines, 1).tokens

ReadCommentT(line) == Len(consumed) < MaxStream /\ ReadComment(line)

ReadTokenT(line) == Len(consumed) < MaxStream /\ ReadToken(line)

\* A blank line with no token line pending: `if current_sentence:` fails
ReadBlankNoSentence(line) ==
    /\ pc = "reading"
    /\ Len(consumed) < MaxStream
    /\ IsBlankLine(line)
    /\ current_sentence = <<>>
    /\ consumed' = Append(consumed, line)
    /\ infile_line_num' = infile_line_num + 1
    /\ UNCHANGED <<pc, current_sentence, current_comments, sent_id, total_sentences,
                   valid_sentences, invalid_sentences, outfile, errors,
                   sentence_lines, ret, verbose, printed, walk>>

\* A blank line with token lines pending: validate_sentence is entered
ReadBlankBegin(line) ==
    /\ pc = "reading"
    /\ Len(consumed) < MaxStream
    /\ IsBlankLine(line)
    /\ current_sentence # <<>>
    /\ consumed' = Append(consumed, line)
    /\ infile_line_num' = infile_line_num + 1
    /\ walk' = WalkBegin(TokensParsed(current_sentence), "blank")
    /\ pc' = "validating"
    /\ UNCHANGED <<current_sentence, current_comments, sent_id, total_sentences,
                   valid_sentences, invalid_sentences, outfile, errors,
                   sentence_lines, ret, verbose, printed>>

\* infile is exhausted with no token line pending: `if current_sentence:` fails
EndOfStreamNoSentence ==
    /\ pc = "reading"
    /\ current_sentence = <<>>
    /\ pc' = "done"
    /\ UNCHANGED <<consumed, current_sentence, current_comments, sent_id,
                   total_sentences, valid_sentences, invalid_sentences, outfile,
                   errors, sentence_lines, ret, infile_line_num, verbose, printed,
                   walk>>

\* infile is exhausted with token lines pending
EndOfStreamBegin ==
    /\ pc = "reading"
    /\ current_sentence # <<>>
    /\ walk' = WalkBegin(TokensParsed(current_sentence), "eof")
    /\ pc' = "validating"
    /\ UNCHANGED <<consumed, current_sentence, current_comments, sent_id,
                   total_sentences, valid_sentences, invalid_sentences, outfile,
                   errors, sentence_lines, ret, infile_line_num, verbose, printed>>

WalkFor ==
    /\ pc = "validating"
    /\ walk.status = "for"
    /\ walk' = ForStep(walk)
    /\ UNCHANGED <<consumed, pc, current_sentence, current_comments, sent_id,
                   total_sentences, valid_sentences, invalid_sentences, outfile,
                   errors, sentence_lines, ret, infile_line_num, verbose, printed>>

WalkWhile ==
    /\ pc = "validating"
    /\ walk.status = "while"
    /\ walk' = WhileStep(walk)
    /\ UNCHANGED <<consumed, pc, current_sentence, current_comments, sent_id,
                   total_sentences, valid_sentences, invalid_sentences, outfile,
                   errors, sentence_lines, ret, infile_line_num, verbose, printed>>

\* _check_no_cycles has returned: the rest of the blank-line branch, or of
\* the handling of the last sentence
FinishSentence ==
    /\ pc = "validating"
    /\ walk.status \in {"returned_true", "returned_false"}
    /\ IF walk.then = "blank"
       THEN Become(BlankStep(Locals)) /\ pc' = "reading"
       ELSE Become(EndOfStreamStep(Locals)) /\ pc' = "done"
    /\ walk' = NoWalk
    /\ UNCHANGED consumed

NextT ==
    \/ \E line \in StreamLines : ReadCommentT(line)
    \/ \E line \in StreamLines : ReadTokenT(line)
    \/ \E line \in StreamLines : ReadBlankNoSentence(line)
    \/ \E line \in StreamLines : ReadBlankBegin(line)
    \/ EndOfStreamNoSentence
    \/ EndOfStreamBegin
    \/ WalkFor
    \/ WalkWhile
    \/ FinishSentence

SpecT == Init /\ [][NextT]_vars

-----------------------------------------------------------------------------
(* Notions the properties are stated with *)

\* The text of a block: each comment line, each token line, then an empty line
RECURSIVE TextOf(_)
TextOf(lines) ==
    IF lines = <<>> THEN <<>> ELSE Head(lines) \o <<NL>> \o TextOf(Tail(lines))

BlockText(comments, tokens) == TextOf(comments) \o TextOf(tokens) \o <<NL>>

\* The lines of a text cut at its empty lines: the complete blocks, and what
\* follows the last empty line
RECURSIVE BlocksFrom(_, _, _)
BlocksFrom(lines, cur, acc) ==
    IF lines = <<>> THEN [blocks |-> acc, rest |-> cur]
    ELSE IF Head(lines) = <<>> THEN BlocksFrom(Tail(lines), <<>>, Append(acc, cur))
    ELSE BlocksFrom(Tail(lines), Append(cur, Head(lines)), acc)

OutBlocks == BlocksFrom(ReadLines(outfile), <<>>, <<>>)

IsHash(line) == line # <<>> /\ line[1] = "#"
NotHash(line) == ~IsHash(line)
AllSpace(line) == \A i \in 1..Len(line) : line[i] \in {" ", TAB}

CommentsOf(block) == SelectSeq(block, IsHash)
TokensOf(block) == SelectSeq(block, NotHash)

\* A block is some comment lines followed by at least one token line
WholeBlock(block) ==
    /\ block = CommentsOf(block) \o TokensOf(block)
    /\ TokensOf(block) # <<>>
    /\ \A i \in 1..Len(block) : ~AllSpace(block[i])

Passes(sentence) == validate_sentence(sentence).ret

\* The sentences of an input: the token lines between two lines that are
\* empty or hold only white space, comment lines set aside.  `closed` are
\* those followed by such a line, `open` the token lines after the last one.
RECURSIVE SentencesFrom(_, _, _)
SentencesFrom(lines, cur, acc) ==
    IF lines = <<>> THEN [closed |-> acc, open |-> cur]
    ELSE IF IsHash(Head(lines)) THEN SentencesFrom(Tail(lines), cur, acc)
    ELSE IF AllSpace(Head(lines))
         THEN SentencesFrom(Tail(lines), <<>>, IF cur = <<>> THEN acc ELSE Append(acc, cur))
    ELSE SentencesFrom(Tail(lines), Append(cur, Head(lines)), acc)

InputSentences(lines) == SentencesFrom(lines, <<>>, <<>>)

\* The sentences the run has decided so far: every closed one, and at the
\* end of the stream the open one too
DecidedSentences ==
    LET s == InputSentences(consumed) IN
    IF pc = "done" /\ s.open # <<>> THEN Append(s.closed, s.open) ELSE s.closed

\* The token lines of each block of the output
RECURSIVE TokensOfEach(_)
TokensOfEach(blocks) ==
    IF blocks = <<>> THEN <<>>
    ELSE <<TokensOf(Head(blocks))>> \o TokensOfEach(Tail(blocks))

OutSentences == TokensOfEach(OutBlocks.blocks)

-----------------------------------------------------------------------------
(* C1: after every fully processed line and at the end of the stream,      *)
(* total_sentences = valid_sentences + invalid_sentences.                  *)
C1_CounterConsistency ==
    total_sentences = valid_sentences + invalid_sentences

C1_Witness ==
    pc = "done" /\ valid_sentences >= 1 /\ invalid_sentences >= 1

(* C2: a sentence is emitted whole or dropped whole.  In every state the   *)
(* output is a concatenation of complete blocks (comment lines, token      *)
(* lines, one empty line), as many as valid_sentences, each of a sentence  *)
(* that passes validate_sentence; and every step that validates a sentence *)
(* appends exactly that sentence's block when the verdict is True and      *)
(* writes nothing when it is False, other steps writing nothing.           *)
C2_OutputIsWholeBlocks ==
    /\ OutBlocks.rest = <<>>
    /\ Len(OutBlocks.blocks) = valid_sentences
    /\ \A k \in 1..Len(OutBlocks.blocks) :
          /\ WholeBlock(OutBlocks.blocks[k])
          /\ Passes(TokensOf(OutBlocks.blocks[k]))

C2_StepWritesWholeOrNothing ==
    IF total_sentences' # total_sentences
    THEN /\ sentence_lines' = current_sentence
         /\ IF ret' = "True"
            THEN /\ outfile' = outfile \o BlockText(current_comments, current_sentence)
                 /\ valid_sentences' = valid_sentences + 1
            ELSE /\ outfile' = outfile
                 /\ valid_sentences' = valid_sentences
    ELSE outfile' = outfile /\ valid_sentences' = valid_sentences

C2_WholeOrDropped ==
    [](C2_OutputIsWholeBlocks) /\ [][C2_StepWritesWholeOrNothing]_vars

C2_Witness ==
    /\ valid_sentences >= 1
    /\ invalid_sentences >= 1
    /\ \E k \in 1..Len(OutBlocks.blocks) : CommentsOf(OutBlocks.blocks[k]) # <<>>

(* C3: order preservation.  In every state the sentences of the output are *)
(* exactly the decided input sentences that pass validation, in input      *)
(* order, each once.                                                       *)
C3_OrderPreserved ==
    OutSentences = SelectSeq(DecidedSentences, Passes)

C3_Witness ==
    /\ pc = "done"
    /\ Len(OutSentences) = 2
    /\ OutSentences[1] # OutSentences[2]

(* C4: idempotence.  Cleaning the output of a finished run again yields    *)
(* that same output, and removes no sentence.                              *)
C4_Idempotent ==
    pc = "done" =>
        LET again == clean_conllu_file(ReadLines(outfile)) IN
        /\ again.outfile = outfile
        /\ again.invalid_sentences = 0
        /\ again.valid_sentences = valid_sentences

C4_Witness ==
    /\ pc = "done"
    /\ valid_sentences >= 2
    /\ \E k \in 1..Len(OutBlocks.blocks) : CommentsOf(OutBlocks.blocks[k]) # <<>>

(* C10: end-of-stream equivalence.  A stream that ends with token lines    *)
(* pending gives the same output and the same counters as that stream with *)
(* one empty line appended.  As claimed, total_sentences is also the       *)
(* number of maximal runs of consecutive token lines of the input.         *)
IsTokenText(line) == NotHash(line) /\ ~AllSpace(line)

\* Maximal runs of consecutive token lines
TokenRuns(lines) ==
    Cardinality({ i \in 1..Len(lines) :
                    /\ IsTokenText(lines[i])
                    /\ (i = 1 \/ ~IsTokenText(lines[i - 1])) })

SameAsWithEmptyLineAppended ==
    LET other == clean_conllu_file(Append(consumed, <<>>)) IN
    /\ other.outfile = outfile
    /\ other.total_sentences = total_sentences
    /\ other.valid_sentences = valid_sentences
    /\ other.invalid_sentences = invalid_sentences

C10_Original ==
    pc = "done" =>
        /\ current_sentence # <<>> => SameAsWithEmptyLineAppended
        /\ total_sentences = TokenRuns(consumed)

(* C10 as amended: the same equivalence; and total_sentences is the number *)
(* of groups of token lines delimited by blank lines or the end of the     *)
(* stream, a comment line between two token lines not ending the group.    *)
C10_EndOfStreamEquivalence ==
    pc = "done" =>
        /\ current_sentence # <<>> => SameAsWithEmptyLineAppended
        /\ total_sentences = Len(DecidedSentences)

C10_Witness ==
    /\ pc = "done"
    /\ current_sentence # <<>>
    /\ total_sentences >= 2
    /\ \E i \in 1..(Len(consumed) - 2) :
          /\ IsTokenText(consumed[i])
          /\ IsHash(consumed[i + 1])
          /\ IsTokenText(consumed[i + 2])

-----------------------------------------------------------------------------
(* The sentence handed to validate_sentence, read as the data model reads  *)
(* it: its structural tokens are the lines of ten fields whose id holds no *)
(* '-' and no '.', with an integer id and an integer head.                 *)

FieldsOf(line) == Split(line, TAB)

IsMarkerId(id) == Contains(id, "-") \/ Contains(id, ".")

IsStructural(line) ==
    LET f == FieldsOf(line) IN
    /\ Len(f) = 10
    /\ ~IsMarkerId(f[1])
    /\ ParseInt(f[1]).ok
    /\ ParseInt(f[7]).ok

TokenOf(line) ==
    LET f == FieldsOf(line) IN
    [id |-> ParseInt(f[1]).val,
     head |-> ParseInt(f[7]).val,
     form |-> f[2],
     upos |-> f[4],
     deprel |-> f[8]]

RECURSIVE StructuralTokens(_)
StructuralTokens(lines) ==
    IF lines = <<>> THEN <<>>
    ELSE (IF IsStructural(Head(lines)) THEN <<TokenOf(Head(lines))>> ELSE <<>>)
         \o StructuralTokens(Tail(lines))

Toks == StructuralTokens(sentence_lines)

IdsOf(T) == { T[k].id : k \in 1..Len(T) }

IsRoot(t) == t.head = 0
RECURSIVE RootIds(_)
RootIds(T) ==
    IF T = <<>> THEN <<>>
    ELSE (IF IsRoot(Head(T)) THEN <<Head(T).id>> ELSE <<>>) \o RootIds(Tail(T))

DanglingHead(T, k) == T[k].head # 0 /\ T[k].head \notin IdsOf(T)

Populated(field) == field # <<>> /\ field # <<"_">>

FieldsPopulated(T) ==
    \A k \in 1..Len(T) :
        Populated(T[k].form) /\ Populated(T[k].upos) /\ Populated(T[k].deprel)

\* The ids one head step away from the ids of S, 0 left out
HeadsOf(T, S) == { T[k].head : k \in { j \in 1..Len(T) : T[j].id \in S } } \ {0}

RECURSIVE ReachIn(_, _, _)
ReachIn(T, S, n) == IF n = 0 THEN S ELSE ReachIn(T, S \cup HeadsOf(T, S), n - 1)

\* Following heads from a token with id i comes back to i before reaching 0
OnCycle(T, i) == i # 0 /\ i \in ReachIn(T, HeadsOf(T, {i}), Len(T))

HasCycle(T) == \E k \in 1..Len(T) : OnCycle(T, T[k].id)

DistinctIds(T) == \A j, k \in 1..Len(T) : j # k => T[j].id # T[k].id

Holds(d) == \E k \in 1..Len(errors) : errors[k] = d
CountOf(d) == Cardinality({ k \in 1..Len(errors) : errors[k] = d })

\* C5's sentences: every line a structural token with a positive id, ids
\* distinct, one root, every head 0 or an id, no cycle, fields populated
WellFormed(lines) ==
    LET T == StructuralTokens(lines) IN
    /\ lines # <<>>
    /\ \A k \in 1..Len(lines) :
          LET f == FieldsOf(lines[k]) IN
          /\ Len(f) = 10
          /\ ParseInt(f[1]).ok
          /\ ParseInt(f[7]).ok
          /\ ParseInt(f[1]).val >= 1
    /\ DistinctIds(T)
    /\ Len(RootIds(T)) = 1
    /\ \A k \in 1..Len(T) : ~DanglingHead(T, k)
    /\ ~HasCycle(T)
    /\ FieldsPopulated(T)

(* C5: a non-empty sentence whose lines all have ten fields and integer id *)
(* and head, with distinct positive ids, exactly one root, every non-zero  *)
(* head an id of the sentence, no cycle and form, upos, deprel populated,  *)
(* is accepted with an empty diagnostic list.                              *)
C5_WellFormedAccepted ==
    (pc = "returned" /\ WellFormed(sentence_lines)) =>
        (ret = "True" /\ errors = <<>>)

C5_Witness ==
    /\ pc = "returned"
    /\ WellFormed(sentence_lines)
    /\ Len(sentence_lines) = 3
    /\ LET T == Toks IN \E k \in 1..3 : T[k].head # 0 /\ T[k].head > T[k].id

(* C6: every sentence validate_sentence accepts satisfies the five pass    *)
(* invariants (one root; heads are ids; no cycle; fields populated; every  *)
(* line has ten fields), and the verdict is True iff the diagnostic list   *)
(* is empty.                                                               *)
C6_AcceptedSatisfiesInvariants ==
    pc = "returned" =>
        /\ (ret = "True") <=> (errors = <<>>)
        /\ ret = "True" =>
              LET T == Toks IN
              /\ Len(RootIds(T)) = 1
              /\ \A k \in 1..Len(T) : ~DanglingHead(T, k)
              /\ ~HasCycle(T)
              /\ FieldsPopulated(T)
              /\ \A k \in 1..Len(sentence_lines) :
                    Len(FieldsOf(sentence_lines[k])) = 10

(* C7: a sentence whose structural tokens hold a cycle (a self-loop, a     *)
(* cycle not reachable from the first token, ...) is rejected, with the    *)
(* cycle diagnostic exactly once.                                          *)
C7_CycleRejected ==
    (pc = "returned" /\ HasCycle(Toks)) =>
        (ret = "False" /\ CountOf(CycleErr) = 1)

(* C8 as claimed: a sentence with zero roots or with more than one is      *)
(* rejected with a root-count message, which for several roots lists their *)
(* ids in input order.                                                     *)
RootRuleObeyed ==
    LET roots == RootIds(Toks) IN
    /\ ret = "False"
    /\ Len(roots) = 0 => Holds(NoRootErr)
    /\ Len(roots) > 1 => Holds(MultipleRootsErr(roots))

C8_Original ==
    (pc = "returned" /\ Len(RootIds(Toks)) # 1) => RootRuleObeyed

(* C8 as amended: the same for every sentence of at least one line (the    *)
(* sentence of no lines is rejected with "Empty sentence" alone).          *)
C8_RootCountRule ==
    (pc = "returned" /\ sentence_lines # <<>> /\ Len(RootIds(Toks)) # 1) =>
        RootRuleObeyed

C8_Witness ==
    /\ pc = "returned"
    /\ Len(sentence_lines) = 3
    /\ RootIds(Toks) = <<2, 1>>
    /\ Holds(MultipleRootsErr(<<2, 1>>))

(* C9: a sentence with a structural token whose head is not 0 and not the  *)
(* id of a structural token is rejected, with an invalid-head diagnostic   *)
(* naming the id and the head of each such token.                          *)
C9_HeadReferenceRule ==
    pc = "returned" =>
        LET T == Toks IN
        \A k \in 1..Len(T) :
            DanglingHead(T, k) =>
                /\ ret = "False"
                /\ CountOf(InvalidHeadErr(T[k].id, T[k].head))
                     = Cardinality({ j \in 1..Len(T) :
                                       /\ DanglingHead(T, j)
                                       /\ T[j].id = T[k].id
                                       /\ T[j].head = T[k].head })

C9_Witness ==
    /\ pc = "returned"
    /\ LET T == Toks IN
       /\ Cardinality({ k \in 1..Len(T) : DanglingHead(T, k) }) >= 2
       /\ \E k \in 1..Len(T) : ~DanglingHead(T, k)

-----------------------------------------------------------------------------
(* Notions for the properties of the lines written and of the labels       *)

\* The lines of the input grouped by sentence: a blank line (empty or white
\* space only) met after at least one token line closes the group of the
\* comment and token lines read since the previous group was closed; a blank
\* line met before any token line closes nothing.  `closed` are the groups
\* closed by a blank line, `open` the lines after the last of them.
RECURSIVE GroupsFrom(_, _, _)
GroupsFrom(lines, cur, acc) ==
    IF lines = <<>> THEN [closed |-> acc, open |-> cur]
    ELSE LET l == Head(lines) IN
         IF NotHash(l) /\ AllSpace(l)
         THEN IF TokensOf(cur) = <<>>
              THEN GroupsFrom(Tail(lines), cur, acc)
              ELSE GroupsFrom(Tail(lines), <<>>, Append(acc, cur))
         ELSE GroupsFrom(Tail(lines), Append(cur, l), acc)

\* The groups the run has decided so far
DecidedGroups ==
    LET g == GroupsFrom(consumed, <<>>, <<>>) IN
    IF pc = "done" /\ TokensOf(g.open) # <<>> THEN Append(g.closed, g.open) ELSE g.closed

GroupPasses(group) == Passes(TokensOf(group))
GroupFails(group) == ~Passes(TokensOf(group))

PassingGroups == SelectSeq(DecidedGroups, GroupPasses)

\* Each group's lines as they stand in the input, then an empty line
RECURSIVE TextInInputOrder(_)
TextInInputOrder(groups) ==
    IF groups = <<>> THEN <<>>
    ELSE TextOf(Head(groups)) \o <<NL>> \o TextInInputOrder(Tail(groups))

\* Each group's comment lines, then its token lines, then an empty line
RECURSIVE TextCommentsFirst(_)
TextCommentsFirst(groups) ==
    IF groups = <<>> THEN <<>>
    ELSE BlockText(CommentsOf(Head(groups)), TokensOf(Head(groups)))
         \o TextCommentsFirst(Tail(groups))

\* A comment line stands after a token line of the group
CommentAmongTokens(group) == group # CommentsOf(group) \o TokensOf(group)

(* C11 as claimed: the output is, for each passing sentence in turn, that  *)
(* sentence's comment and token lines, unchanged and in the relative order *)
(* they have in the input (a comment line between two token lines staying  *)
(* between them), followed by exactly one empty line.                      *)
C11_Original ==
    outfile = TextInInputOrder(PassingGroups)

(* C11 as amended: the output is, for each passing sentence in turn, the   *)
(* comment lines read since the previous sentence was decided, unchanged   *)
(* and in input order, then the sentence's token lines, unchanged and in   *)
(* input order, then exactly one empty line; a comment line standing       *)
(* between two token lines is written before all the token lines.          *)
C11_VerbatimPreservation ==
    outfile = TextCommentsFirst(PassingGroups)

C11_Witness ==
    /\ valid_sentences >= 1
    /\ \E k \in 1..Len(PassingGroups) : CommentAmongTokens(PassingGroups[k])

-----------------------------------------------------------------------------
(* Termination as a rank that every step lowers *)

\* What is left of the input: the lines not yet read and the end of the
\* stream, 0 once the end of the stream has been met
InputLeft ==
    IF pc = "done" \/ (pc = "validating" /\ walk.then = "eof") THEN 0
    ELSE MaxStream - Len(consumed) + 1

\* What is left of a walk of n tokens: the start tokens not yet taken, and
\* within the walk from one start token the ids not yet visited
WalkLeft(w) ==
    LET n == Len(w.tokens)
        ids == DOMAIN TokenHeads(w.tokens)
    IN  IF w.status = "for" THEN (n + 1 - w.k) * (n + 3) + n + 2
        ELSE IF w.status = "while"
             THEN (n + 1 - w.k) * (n + 3) + 1 + Cardinality(ids \ w.visited)
        ELSE 0

Rank == <<InputLeft, IF pc = "validating" THEN 1 ELSE 0, WalkLeft(walk)>>

\* The lexicographic order on ranks
RankLess(a, b) ==
    \/ a[1] < b[1]
    \/ a[1] = b[1] /\ a[2] < b[2]
    \/ a[1] = b[1] /\ a[2] = b[2] /\ a[3] < b[3]

(* C12: malformed sentences are never fatal and every run ends.  Whatever  *)
(* the lines read, the program has a next step in every state but the     *)
(* final one (pc = "done", the summary), and every step lowers a rank of   *)
(* three natural numbers ordered lexicographically, so that no run goes on *)
(* for ever: every line of a finite input is read and the summary is       *)
(* reached.  The walk of the head chains returns for every head map,       *)
(* cyclic ones included, and returns what _check_no_cycles returns.        *)
C12_WalkReturnsVerdict ==
    /\ walk.status = "returned_true" => check_no_cycles(walk.tokens)
    /\ walk.status = "returned_false" => ~check_no_cycles(walk.tokens)

\* In "reading" the end of the stream can be met, whatever is pending; in
\* "validating" the walk is at the head of one of its loops or has returned
C12_NeverStuck ==
    \/ pc = "done"
    \/ pc = "reading"
    \/ pc = "validating" /\ walk.status = "for"
    \/ pc = "validating" /\ walk.status = "while"
    \/ pc = "validating" /\ walk.status \in {"returned_true", "returned_false"}

C12_RankIsNatural == \A i \in 1..3 : Rank[i] \in Nat

C12_StepLowersRank == RankLess(Rank', Rank)

C12_Termination ==
    /\ [](C12_WalkReturnsVerdict /\ C12_NeverStuck /\ C12_RankIsNatural)
    /\ [][C12_StepLowersRank]_vars

C12_Witness ==
    /\ pc = "done"
    /\ Len(consumed) = MaxStream
    /\ invalid_sentences >= 1
    /\ valid_sentences >= 1
    /\ CycleErr \in { errors[i] : i \in 1..Len(errors) }

-----------------------------------------------------------------------------
(* The diagnostics the rules call for, rule by rule, from the lines alone  *)

\* A line that is no token and no marker line: the diagnostic it calls for
RECURSIVE LineDiagnostics(_, _)
LineDiagnostics(lines, k) ==
    IF lines = <<>> THEN <<>>
    ELSE LET f == FieldsOf(Head(lines)) IN
         (IF Len(f) # 10 THEN <<FieldCountErr(k, Len(f))>>
          ELSE IF IsMarkerId(f[1]) THEN <<>>
          ELSE IF ~ParseInt(f[1]).ok \/ ~ParseInt(f[7]).ok
               THEN <<InvalidIdOrHeadErr(k, f[1], f[7])>>
          ELSE <<>>)
         \o LineDiagnostics(Tail(lines), k + 1)

RootDiagnostics(T) ==
    LET roots == RootIds(T) IN
    IF Len(roots) = 0 THEN <<NoRootErr>>
    ELSE IF Len(roots) > 1 THEN <<MultipleRootsErr(roots)>>
    ELSE <<>>

RECURSIVE HeadDiagnosticsFrom(_, _)
HeadDiagnosticsFrom(T, k) ==
    IF k > Len(T) THEN <<>>
    ELSE (IF DanglingHead(T, k) THEN <<InvalidHeadErr(T[k].id, T[k].head)>> ELSE <<>>)
         \o HeadDiagnosticsFrom(T, k + 1)

CycleDiagnostics(T) == IF HasCycle(T) THEN <<CycleErr>> ELSE <<>>

RECURSIVE FieldDiagnostics(_)
FieldDiagnostics(T) ==
    IF T = <<>> THEN <<>>
    ELSE LET t == Head(T) IN
         (IF Populated(t.form) THEN <<>> ELSE <<MissingFormErr(t.id)>>)
         \o (IF Populated(t.upos) THEN <<>> ELSE <<MissingUposErr(t.id)>>)
         \o (IF Populated(t.deprel) THEN <<>> ELSE <<MissingDeprelErr(t.id)>>)
         \o FieldDiagnostics(Tail(T))

(* C13: validation does not stop at the first violated rule.  For every    *)
(* sentence of at least one line, one call leaves in errors the            *)
(* diagnostics of every violated rule, in the order line-level             *)
(* diagnostics, root count, invalid heads, cycle, missing fields; a line   *)
(* of a wrong field count or with a non-integer id or head gives its       *)
(* diagnostic and no token, the other lines being parsed and checked all   *)
(* the same.                                                               *)
C13_AllRulesReported ==
    (pc = "returned" /\ sentence_lines # <<>>) =>
        LET T == Toks IN
        errors = LineDiagnostics(sentence_lines, 1)
                 \o RootDiagnostics(T)
                 \o HeadDiagnosticsFrom(T, 1)
                 \o CycleDiagnostics(T)
                 \o FieldDiagnostics(T)

(* C14: the validator carries nothing from one call to the next.  In a run *)
(* of clean_conllu_file, which calls validate_sentence on one validator    *)
(* for every sentence, the value returned by the latest call and the       *)
(* diagnostics it left are those a validator just constructed gives for    *)
(* the lines of that call, whatever the calls before it.                   *)
C14_CallsAreIndependent ==
    ret # "None" =>
        LET fresh == validate_sentence(sentence_lines) IN
        /\ ret = BoolName(fresh.ret)
        /\ errors = fresh.errors
        /\ get_errors = fresh.errors

C14_Witness ==
    /\ total_sentences >= 3
    /\ invalid_sentences >= 1
    /\ valid_sentences >= 1
    /\ ret = "True"
    /\ errors = <<>>

-----------------------------------------------------------------------------
(* Steps of the loop, told from the line they read *)

\* The step reads a line
ReadsLine == Len(consumed') = Len(consumed) + 1
LineRead == consumed'[Len(consumed')]
ReadsBlankLine == ReadsLine /\ NotHash(LineRead) /\ AllSpace(LineRead)

IsSentIdComment(line) == StartsWith(line, SentIdPrefix)
HasSentIdComment(group) == \E k \in 1..Len(group) : IsSentIdComment(group[k])

\* The lines read since the last sentence was decided
OpenGroup == GroupsFrom(consumed, <<>>, <<>>).open

(* C15: the buffers are reset at every sentence boundary, whatever the     *)
(* verdict.  A step that reads a blank line while token lines are pending  *)
(* leaves the token buffer and the comment buffer empty and sent_id unset; *)
(* hence, while the loop runs, the buffers and sent_id hold lines of the   *)
(* sentence being read only: the comment buffer is the comment lines, and  *)
(* the token buffer the token lines, read since the last sentence was      *)
(* decided, and sent_id is set only if one of those comments is a sent_id  *)
(* comment.                                                                *)
C15_BlankStepResets ==
    (ReadsBlankLine /\ current_sentence # <<>>) =>
        /\ current_sentence' = <<>>
        /\ current_comments' = <<>>
        /\ sent_id' = NoSentId

C15_BuffersHoldOpenSentence ==
    pc = "reading" =>
        /\ current_comments = CommentsOf(OpenGroup)
        /\ current_sentence = TokensOf(OpenGroup)
        /\ sent_id.set => HasSentIdComment(OpenGroup)

C15_BuffersReset ==
    [](C15_BuffersHoldOpenSentence) /\ [][C15_BlankStepResets]_vars

C15_Witness ==
    /\ pc = "reading"
    /\ ret = "False"
    /\ valid_sentences >= 1
    /\ consumed # <<>>
    /\ AllSpace(consumed[Len(consumed)])
    /\ Len(DecidedGroups) >= 2
    /\ HasSentIdComment(DecidedGroups[Len(DecidedGroups)])
    /\ OpenGroup = <<>>
    /\ current_sentence = <<>>
    /\ current_comments = <<>>
    /\ sent_id = NoSentId

(* C16: a blank line between sentences does nothing.  A step that reads a  *)
(* blank (empty or white space only) line while no token line is pending   *)
(* leaves the three counters, the output, the token buffer, the comment    *)
(* buffer and sent_id as they were.                                        *)
C16_BlankStepIsNoOp ==
    (ReadsBlankLine /\ current_sentence = <<>>) =>
        UNCHANGED <<total_sentences, valid_sentences, invalid_sentences, outfile,
                    current_sentence, current_comments, sent_id>>

C16_BlankLineNoOp == [][C16_BlankStepIsNoOp]_vars

C16_Witness ==
    /\ pc = "reading"
    /\ Len(consumed) >= 2
    /\ consumed[Len(consumed)] = SpaceLine
    /\ current_sentence = <<>>
    /\ current_comments # <<>>
    /\ sent_id.set
    /\ total_sentences >= 1

-----------------------------------------------------------------------------
\* A stream with its comment lines taken out
WithoutComments(lines) == SelectSeq(lines, NotHash)

\* The run over the lines read so far with their comment lines taken out,
\* brought as far as this run is
RunWithoutComments ==
    IF pc = "done" THEN clean_conllu_file(WithoutComments(consumed))
    ELSE RunLines(Locals0, WithoutComments(consumed))

(* C17: comments never influence the verdict.  At every point of a run,    *)
(* the run over the same lines with the comment lines taken out has the    *)
(* same latest verdict and diagnostics (hence, point after point, the same *)
(* sequence of verdicts), the same three counters, the same pending token  *)
(* lines and the same token lines in its output; so two streams that       *)
(* differ only in their comment lines agree on all of these.               *)
C17_CommentsNeverInfluence ==
    LET other == RunWithoutComments IN
    /\ ret = other.ret
    /\ errors = other.errors
    /\ sentence_lines = other.sentence_lines
    /\ total_sentences = other.total_sentences
    /\ valid_sentences = other.valid_sentences
    /\ invalid_sentences = other.invalid_sentences
    /\ current_sentence = other.current_sentence
    /\ WithoutComments(ReadLines(outfile)) = ReadLines(other.outfile)

C17_Witness ==
    /\ pc = "done"
    /\ valid_sentences >= 1
    /\ invalid_sentences >= 1
    /\ \E k \in 1..Len(consumed) : IsSentIdComment(consumed[k])
    /\ \E k \in 2..Len(consumed) - 1 :
          /\ IsHash(consumed[k])
          /\ IsTokenText(consumed[k - 1])
          /\ IsTokenText(consumed[k + 1])

-----------------------------------------------------------------------------
(* The labels of the dropped sentences *)

\* The last sent_id comment of a group that has one
LastSentIdComment(group) ==
    LET last == CHOOSE k \in 1..Len(group) :
                    /\ IsSentIdComment(group[k])
                    /\ \A j \in (k + 1)..Len(group) : ~IsSentIdComment(group[j])
    IN  group[last]

\* The identifier written after the first '=' of a comment
IdentifierIn(comment) == Strip(AfterFirst(comment, "="))

NoneText == <<"N", "o", "n", "e">>

\* C18 as claimed: the identifier of the sentence's sent_id comment, and the
\* position of the sentence when it has no such comment or one without '='
ClaimedLabel(group, position) ==
    IF HasSentIdComment(group) /\ Contains(LastSentIdComment(group), "=")
    THEN IdentifierIn(LastSentIdComment(group))
    ELSE Str(position)

\* C18 as amended: None when the sentence has no sent_id comment
AmendedLabel(group, position) ==
    IF ~HasSentIdComment(group) THEN NoneText
    ELSE IF Contains(LastSentIdComment(group), "=")
         THEN IdentifierIn(LastSentIdComment(group))
    ELSE Str(position)

\* The labels of the dropped ones among groups, the first of which is the
\* position-th sentence of the stream
RECURSIVE ClaimedLabels(_, _)
ClaimedLabels(groups, position) ==
    IF groups = <<>> THEN <<>>
    ELSE (IF GroupFails(Head(groups))
          THEN <<ClaimedLabel(Head(groups), position)>> ELSE <<>>)
         \o ClaimedLabels(Tail(groups), position + 1)

RECURSIVE AmendedLabels(_, _)
AmendedLabels(groups, position) ==
    IF groups = <<>> THEN <<>>
    ELSE (IF GroupFails(Head(groups))
          THEN <<AmendedLabel(Head(groups), position)>> ELSE <<>>)
         \o AmendedLabels(Tail(groups), position + 1)

RECURSIVE LabelsOf(_)
LabelsOf(messages) ==
    IF messages = <<>> THEN <<>>
    ELSE <<Head(messages).label>> \o LabelsOf(Tail(messages))

(* C18 as claimed: in a verbose run, the label printed for each dropped   *)
(* sentence is the identifier extracted from the sentence's sent_id        *)
(* comment, and is the sentence's 1-based position among the sentences     *)
(* seen whenever the sentence has no sent_id comment or its sent_id        *)
(* comment has no '='.                                                     *)
C18_Original ==
    LabelsOf(printed) = ClaimedLabels(DecidedGroups, 1)

(* C18 as amended: in a verbose run, the label printed for each dropped   *)
(* sentence is the identifier extracted from the last sent_id comment read *)
(* since the previous sentence was decided; it is the sentence's 1-based   *)
(* position among the sentences seen when that comment has no '='; and it  *)
(* is None when no sent_id comment was read for the sentence.              *)
C18_IdentifierFallback ==
    LabelsOf(printed) = AmendedLabels(DecidedGroups, 1)

C18_Witness ==
    /\ Len(printed) = 2
    /\ \E k \in 1..2 : printed[k].label = <<"2">>
    /\ \E k \in 1..2 : printed[k].label \in {<<"s">>, NoneText}

(* C19: the token ids of an accepted sentence are distinct positive        *)
(* integers: when validate_sentence returns True, every structural token   *)
(* of the sentence has an id of at least 1 and no two of them have the     *)
(* same id.                                                                *)
C19_DistinctPositiveIds ==
    (pc = "returned" /\ ret = "True") =>
        LET T == Toks IN
        /\ \A k \in 1..Len(T) : T[k].id >= 1
        /\ DistinctIds(T)

-----------------------------------------------------------------------------
(* Lines of ten fields whose id holds '-' or '.': multiword spans and      *)
(* empty nodes                                                             *)

IsMarkerLine(line) ==
    LET f == FieldsOf(line) IN Len(f) = 10 /\ IsMarkerId(f[1])
NotMarkerLine(line) == ~IsMarkerLine(line)

WithoutMarkers(lines) == SelectSeq(lines, NotMarkerLine)

\* Some line, of any field count, has an id that holds '-' or '.'
HasMarkerId(lines) == \E k \in 1..Len(lines) : IsMarkerId(FieldsOf(lines[k])[1])

\* The numbers an id such as 2-3 or 1.1 is made of
NumbersIn(id) ==
    LET parts == IF Contains(id, "-") THEN Split(id, "-") ELSE Split(id, ".")
    IN  { ParseInt(parts[k]).val : k \in { j \in 1..Len(parts) : ParseInt(parts[j]).ok } }

MarkerNumbers(lines) ==
    UNION { NumbersIn(FieldsOf(lines[k])[1]) :
              k \in { j \in 1..Len(lines) : IsMarkerLine(lines[j]) } }

\* A diagnostic with its line number left out
IsLineLevel(d) == d \in { FieldCountErr(d.n, d.m), InvalidIdOrHeadErr(d.n, d.s1, d.s2) }

RECURSIVE Unnumbered(_)
Unnumbered(diags) ==
    IF diags = <<>> THEN <<>>
    ELSE LET d == Head(diags) IN
         <<IF IsLineLevel(d) THEN [d EXCEPT !.n = 0] ELSE d>> \o Unnumbered(Tail(diags))

(* C20: span and empty-node lines are ignored.  In every sentence that has *)
(* a line whose id holds '-' or '.': a line of ten fields with such an id  *)
(* adds no token, no root, no id and no diagnostic, whatever its other     *)
(* fields: the verdict of the sentence is that of the                      *)
(* sentence without such lines, and so are its diagnostics but for the     *)
(* line numbers in them, as long as a line is left.  A sentence of such    *)
(* lines only fails, with the no-root diagnostic.  A line of another field *)
(* count with such an id makes the sentence fail with the field-count      *)
(* diagnostic.  A structural token whose head is named by such ids only    *)
(* gets the invalid-head diagnostic.                                       *)
C20_MarkerLinesIgnored ==
    (pc = "returned" /\ HasMarkerId(sentence_lines)) =>
        LET rest == WithoutMarkers(sentence_lines)
            without == validate_sentence(rest)
            T == Toks
        IN  /\ rest # sentence_lines =>
                  /\ ret = BoolName(without.ret)
                  /\ rest # <<>> => Unnumbered(errors) = Unnumbered(without.errors)
                  /\ rest = <<>> => (ret = "False" /\ errors = <<NoRootErr>>)
            /\ \A k \in 1..Len(sentence_lines) :
                  LET f == FieldsOf(sentence_lines[k]) IN
                  (Len(f) # 10 /\ IsMarkerId(f[1])) =>
                      (ret = "False" /\ Holds(FieldCountErr(k, Len(f))))
            /\ \A k \in 1..Len(T) :
                  (DanglingHead(T, k) /\ T[k].head \in MarkerNumbers(sentence_lines)) =>
                      (ret = "False" /\ Holds(InvalidHeadErr(T[k].id, T[k].head)))

C20_Witness ==
    /\ pc = "returned"
    /\ Len(RootIds(Toks)) = 1
    /\ \E k \in 1..Len(sentence_lines) : IsMarkerLine(sentence_lines[k])
    /\ \E k \in 1..Len(Toks) :
          DanglingHead(Toks, k) /\ Toks[k].head \in MarkerNumbers(sentence_lines)
    /\ errors = <<InvalidHeadErr(2, 3)>>

====
